---- MODULE Spec2Model ----
(***************************************************************************)
(* Model of src/scraper.py: the NJDG scraper's listing fetch               *)
(* (read_table_data_and_links), its crawl driver (scrape_summary, fresh    *)
(* pass and resume pass, with the cache.json / counter.pkl files) and its  *)
(* export (write_judge_data_to_csv).                                       *)
(*                                                                         *)
(* A python dict row is a record.  A key the code reads through            *)
(* .get(key, default) is a field that holds the default while the key is   *)
(* absent: done and error_flag default to FALSE, districts, courts and     *)
(* judges to <<>>.  The identifying column of a row (state, district,      *)
(* establishment) is 0 while the row has no such key, which is the case of *)
(* the rows read_table_data_and_links makes up for a failed fetch.         *)
(* The timestamp column is left out: nothing reads it.                     *)
(***************************************************************************)
EXTENDS Integers, Sequences, FiniteSets, TLC

\* Judges on the listing of a court of the first state of the modelled site.
MaxJudges == 2
\* Crawl passes (calls of scrape_summary) over all runs of the program.
MaxPasses == 2
\* Calls of get_to_cases_root the interpreter's stack has room for
\* (sys.getrecursionlimit(), 1000 by default, less the frames in use).
RecursionLimit == 3

(***************************************************************************)
(* URLs.  A URL is a sequence of tokens; a token below zero is a piece of  *)
(* fixed text, a token above zero is the index of a listing row.           *)
(***************************************************************************)
\* 'h' and 't', the first two characters of ROOT_URL
TokH == -1
TokT == -2
\* 'tp://njdg.ecourts.gov.in/njdgv1', the rest of ROOT_URL
TokRoot == -3
\* the two characters '.' and '/' every href of a listing starts with
TokDot == -4
TokSlash == -5
\* '/stat_reports/national_detail.php?objection1={}&type=both'
TokNational == -6
\* '&captchaValid=valid'
TokCaptcha == -7

ROOT_URL == <<TokH, TokT, TokRoot>>

\* python url[2:]
Drop2(url) == SubSeq(url, 3, Len(url))

\* base_url of scrape_summary: the national listing
base_url == ROOT_URL \o <<TokNational>>

\* the href of row i of the listing at site path p
Href(p, i) == <<TokDot, TokSlash>> \o p \o <<i>>

\* ROOT_URL + row['url'][2:]
ChildUrl(url) == ROOT_URL \o Drop2(url)

\* ROOT_URL + court['url'][2:] + '&captchaValid=valid'
JudgesUrl(url) == ROOT_URL \o Drop2(url) \o <<TokCaptcha>>

(***************************************************************************)
(* The remote site: a fixed hierarchy of listings.  The listing at path    *)
(* <<>> is the national one (its rows are the states), <<s>> lists the     *)
(* districts of state s, <<s, d>> the courts of district d, <<s, d, c>>    *)
(* the judges of court c.  Two states: the first has one district with two *)
(* courts, the second two districts with one court of one judge.           *)
(***************************************************************************)
SiteRows(p) ==
    CASE Len(p) = 0 -> 2
      [] Len(p) = 1 -> p[1]
      [] Len(p) = 2 -> 3 - p[1]
      [] OTHER      -> IF p[1] = 1 THEN MaxJudges ELSE 1

\* Row i of listing p carries a link in its fourth cell: every state does,
\* below that only the first row of a listing, and no judge does.
HasLink(p, i) == Len(p) < 3 /\ (Len(p) = 0 \/ i = 1)

IsSitePath(p) ==
    /\ Len(p) <= 3
    /\ \A k \in 1..Len(p) :
          /\ p[k] > 0
          /\ p[k] <= SiteRows(SubSeq(p, 1, k - 1))
          /\ HasLink(SubSeq(p, 1, k - 1), p[k])

\* What follows ROOT_URL in a URL the site serves a listing for: the
\* national page, the href of a state or district row, or the href of a
\* court row with the captcha marker.
SitePathOf(rest) ==
    CASE rest = <<TokNational>> -> <<>>
      [] Len(rest) = 4 /\ rest[4] = TokCaptcha -> SubSeq(rest, 1, 3)
      [] OTHER -> rest

IsSiteUrl(u) ==
    /\ Len(u) > 3
    /\ SubSeq(u, 1, 3) = ROOT_URL
    /\ LET rest == SubSeq(u, 4, Len(u)) IN
          \/ rest = <<TokNational>>
          \/ Len(rest) \in {1, 2} /\ IsSitePath(rest)
          \/ Len(rest) = 4 /\ rest[4] = TokCaptcha /\ IsSitePath(SubSeq(rest, 1, 3))

SitePath(u) == SitePathOf(SubSeq(u, 4, Len(u)))

(***************************************************************************)
(* Responses of SESSION.get(url, timeout=10).                              *)
(***************************************************************************)
\* status 200, the two-table listing page
RespOk == "ok"
\* status 200, body holds 'Connection Error' or 'Connection  Error'
RespMarker == "marker"
\* status other than 200
RespNon200 == "non200"
\* requests.Timeout
RespTimeout == "timeout"
\* requests.ConnectionError or another requests.RequestException
RespConnErr == "connection_error"
\* status 200, no marker, no second table: soup.find_all('table')[1] fails
RespMalformed == "malformed"

Responses(url) ==
    {RespMarker, RespNon200, RespTimeout, RespConnErr, RespMalformed}
        \cup (IF IsSiteUrl(url) THEN {RespOk} ELSE {})

\* the row dict of a listing row, before any key is added to it
ListedRow(p, i) ==
    [url |-> IF HasLink(p, i) THEN Href(p, i) ELSE <<>>,
     error_flag |-> FALSE, done |-> FALSE, id |-> i]

\* [{'url': url, 'error_flag': True, 'done': False}]
ErrorRows(url) == << [url |-> url, error_flag |-> TRUE, done |-> FALSE, id |-> 0] >>

\* The outer if of read_table_data_and_links on a 200 response: the inner
\* if has no else, so a marker body leaves _data at its default [].
Status200Rows(url, resp) ==
    IF resp = RespMarker
      THEN <<>>
      ELSE [i \in 1..SiteRows(SitePath(url)) |-> ListedRow(SitePath(url), i)]

\* What read_table_data_and_links raises: "none" when it returns.
FetchRaises(resp) ==
    CASE resp = RespConnErr   -> "RequestException"
      [] resp = RespMalformed -> "Exception"
      [] OTHER                -> "none"

read_table_data_and_links(url, resp) ==
    CASE resp \in {RespOk, RespMarker} -> Status200Rows(url, resp)
      [] resp = RespNon200             -> ErrorRows(url)
      [] resp = RespTimeout            -> ErrorRows(url)
      [] OTHER                         -> <<>>

(***************************************************************************)
(* Rows of the four levels.  read_table_data_and_links returns plain rows; *)
(* the crawl stores them under 'districts', 'courts' or 'judges' and adds  *)
(* keys to them afterwards.                                                *)
(***************************************************************************)
AsStates(rows) ==
    [i \in 1..Len(rows) |->
        [url |-> rows[i].url, error_flag |-> rows[i].error_flag, done |-> rows[i].done,
         state |-> rows[i].id, districts |-> <<>>]]

AsDistricts(rows) ==
    [i \in 1..Len(rows) |->
        [url |-> rows[i].url, error_flag |-> rows[i].error_flag, done |-> rows[i].done,
         district |-> rows[i].id, courts |-> <<>>]]

AsCourts(rows) ==
    [i \in 1..Len(rows) |->
        [url |-> rows[i].url, error_flag |-> rows[i].error_flag, done |-> rows[i].done,
         establishment |-> rows[i].id, judges |-> <<>>]]

\* establishment, district and state are the keys write_judge_data_to_csv
\* adds to a judge's dict; 0 while absent.
AsJudges(rows) ==
    [i \in 1..Len(rows) |->
        [url |-> rows[i].url, error_flag |-> rows[i].error_flag, done |-> rows[i].done,
         judge |-> rows[i].id, establishment |-> 0, district |-> 0, state |-> 0]]

\* len(x) > 0 and x[0].get('error_flag', False)
FirstIsError(rows) == Len(rows) > 0 /\ rows[1].error_flag

\* len(x) > 0 and not x[0].get('error_flag', False)
FirstIsData(rows) == Len(rows) > 0 /\ ~rows[1].error_flag

(***************************************************************************)
(* write_judge_data_to_csv                                                 *)
(***************************************************************************)
RECURSIVE Concat(_)
Concat(ss) == IF Len(ss) = 0 THEN <<>> ELSE Head(ss) \o Concat(Tail(ss))

\* The judges in the order of the four nested for loops.
JudgePaths(t) ==
    Concat([s \in 1..Len(t) |->
      Concat([d \in 1..Len(t[s].districts) |->
        Concat([c \in 1..Len(t[s].districts[d].courts) |->
          [j \in 1..Len(t[s].districts[d].courts[c].judges) |-> <<s, d, c, j>>]])])])

\* data[0]['districts'][0]['courts'][0]['judges'][0] raises
HeaderRaises(t) ==
    \/ Len(t) = 0
    \/ Len(t[1].districts) = 0
    \/ Len(t[1].districts[1].courts) = 0
    \/ Len(t[1].districts[1].courts[1].judges) = 0

\* The assignment of the loop body that raises KeyError for the judge at q:
\* 1 court['establishment'], 2 district['district'], 3 state['state'], 0 none.
KeyErrorAt(t, q) ==
    CASE t[q[1]].districts[q[2]].courts[q[3]].establishment = 0 -> 1
      [] t[q[1]].districts[q[2]].district = 0                   -> 2
      [] t[q[1]].state = 0                                      -> 3
      [] OTHER                                                  -> 0

\* Index in JudgePaths of the first judge whose row raises; 0 when none does.
FirstRaising(t) ==
    LET qs == JudgePaths(t)
        bad == {k \in 1..Len(qs) : KeyErrorAt(t, qs[k]) # 0}
    IN IF bad = {} THEN 0 ELSE CHOOSE k \in bad : \A m \in bad : k <= m

CsvRaises(t) == HeaderRaises(t) \/ FirstRaising(t) # 0

\* judge_data = judge is an alias: the three keys are set on the tree's own
\* dict, in this order, as far as no KeyError stops them (stage = 0: all).
Annotated(t, q, stage) ==
    LET st == t[q[1]]
        di == st.districts[q[2]]
        co == di.courts[q[3]]
        ju == co.judges[q[4]]
    IN [ju EXCEPT !.establishment = IF stage = 1 THEN @ ELSE co.establishment,
                  !.district = IF stage \in {1, 2} THEN @ ELSE di.district,
                  !.state = IF stage \in {1, 2, 3} THEN @ ELSE st.state]

\* The tree as the loop leaves it: every judge before the raising one has the
\* three keys, the raising one those set before its KeyError.
CsvTree(t) ==
    IF HeaderRaises(t) THEN t ELSE
    LET qs == JudgePaths(t)
        bad == FirstRaising(t)
        Pos(q) == CHOOSE k \in 1..Len(qs) : qs[k] = q
        New(q) == CASE bad = 0 \/ Pos(q) < bad -> Annotated(t, q, 0)
                    [] Pos(q) = bad            -> Annotated(t, q, KeyErrorAt(t, q))
                    [] OTHER                   -> t[q[1]].districts[q[2]].courts[q[3]].judges[q[4]]
    IN [s \in 1..Len(t) |-> [t[s] EXCEPT !.districts =
         [d \in 1..Len(t[s].districts) |-> [t[s].districts[d] EXCEPT !.courts =
           [c \in 1..Len(t[s].districts[d].courts) |-> [t[s].districts[d].courts[c] EXCEPT !.judges =
             [j \in 1..Len(t[s].districts[d].courts[c].judges) |-> New(<<s, d, c, j>>)]]]]]]]

\* The rows handed to writer.writerow, in order (no row raises).
CsvRecords(t) ==
    LET qs == JudgePaths(t) IN [k \in 1..Len(qs) |-> Annotated(t, qs[k], 0)]

\* The rows in the output file when the loop raises: open(output_file, 'w+')
\* has emptied it, the rows before the raising one are flushed when the
\* exception leaves the `with` block.
CsvRowsBeforeRaise(t) ==
    IF HeaderRaises(t) THEN <<>> ELSE SubSeq(CsvRecords(t), 1, FirstRaising(t) - 1)

\* The rows in the output file after os._exit(0) of line 120, inside the
\* `with` block: the process ends with the file not closed, and what is still
\* in the buffer of output_fp is lost; the file keeps the rows of the buffers
\* that were full before, a prefix.
CsvRowsOnExit(t) == {SubSeq(CsvRecords(t), 1, k) : k \in 0..Len(CsvRecords(t))}

(***************************************************************************)
(* State                                                                   *)
(***************************************************************************)
VARIABLES
    pc,          \* where the running call of scrape_summary stands; "off": no process
    mode,        \* "fresh" or "resume": the branch of line 128 the call took
    frames,      \* shutdown_by_keyboard_interrupt of every active call, innermost last
    data,        \* the tree of the running call
    counter,     \* its counter
    s, d, c,     \* indices of the state, district and court loops (0: not in the loop)
    exc,         \* the exception raised in the try block and not yet handled
    cache_json,  \* ./cache.json
    counter_pkl, \* counter.pkl
    written,     \* the rows in the output file
    passNo,      \* calls of scrape_summary so far
    fetched,     \* the fetches of the running call: tree node and URL
    last,        \* the last fetch: URL, response, returned rows
    attempts,    \* active calls of get_to_cases_root, one per attempt of this process
    verified,    \* the site has accepted a captcha answer on SESSION
    clean        \* every fetch of the running call was answered with a listing

vars == <<pc, mode, frames, data, counter, s, d, c, exc, cache_json, counter_pkl,
          written, passNo, fetched, last, attempts, verified, clean>>

NoFile == [exists |-> FALSE, content |-> <<>>, pass |-> 0]
NoFetch == [url |-> <<>>, resp |-> "none", rows |-> <<>>]

Init ==
    /\ pc = "off"
    /\ mode = "none"
    /\ frames = <<>>
    /\ data = <<>>
    /\ counter = 0
    /\ s = 0 /\ d = 0 /\ c = 0
    /\ exc = "none"
    /\ cache_json = NoFile
    /\ counter_pkl = [exists |-> FALSE, content |-> 0, pass |-> 0]
    /\ written = <<>>
    /\ passNo = 0
    /\ fetched = {}
    /\ last = NoFetch
    /\ attempts = 0
    /\ verified = FALSE
    /\ clean = TRUE

\* The process is gone: its locals with it, the files stay.  `how` is "off"
\* (it returned or was killed) or "failed" (an exception nothing catches).
ProcessEnds(how) ==
    /\ pc' = how
    /\ mode' = "none"
    /\ frames' = <<>>
    /\ data' = <<>>
    /\ counter' = 0
    /\ s' = 0 /\ d' = 0 /\ c' = 0
    /\ exc' = "none"
    /\ fetched' = {}
    /\ last' = NoFetch
    /\ attempts' = 0
    /\ verified' = FALSE
    /\ clean' = TRUE

\* SESSION.get is called for the children of the tree node at path `node`.
Fetch(node, url, resp) ==
    /\ fetched' = fetched \cup {[node |-> node, url |-> url]}
    /\ last' = [url |-> url, resp |-> resp, rows |-> read_table_data_and_links(url, resp)]
    /\ clean' = (clean /\ resp = RespOk)

\* An exception leaves the try block of the running call.
Raise(kind) ==
    /\ exc' = kind
    /\ pc' = "except"
    /\ s' = 0 /\ d' = 0 /\ c' = 0

(***************************************************************************)
(* __main__ and get_to_cases_root, lines 74-100 and 266-270.               *)
(***************************************************************************)
\* What comes back from the POST of line 87: the top-level page with the
\* iframe, or the login page again (the answer was wrong).
PageFrames == "frames"
PageLogin == "login"

\* a check that takes every page for the top-level page
SolveSucceeded_any(page) == TRUE

\* `if soup.find('iframe', src='frames.php'):` of line 93
SolveSucceeded(page) == page = PageFrames

\* __main__, line 266: a new process, a new SESSION, the first call of
\* get_to_cases_root.
Launch ==
    /\ pc \in {"off", "failed"}
    /\ passNo < MaxPasses
    /\ pc' = "auth"
    /\ attempts' = 1
    /\ verified' = FALSE
    /\ UNCHANGED <<mode, frames, data, counter, s, d, c, exc, cache_json, counter_pkl,
                   written, passNo, fetched, last, clean>>

\* One attempt, lines 75-93: the home page and its token, the captcha image,
\* the solver's answer, the POST, the test of the response.  A request that
\* raises, or a home page without the token (line 79: .group(1) of None),
\* ends the process: nothing catches it.
Challenge ==
    /\ pc = "auth"
    /\ \/ /\ ProcessEnds("failed")
          /\ UNCHANGED <<cache_json, counter_pkl, written, passNo>>
       \/ \E page \in {PageFrames, PageLogin} :
            /\ verified' = (page = PageFrames)
            /\ pc' = IF SolveSucceeded(page) THEN "auth_return" ELSE "auth_retry"
            /\ UNCHANGED <<mode, frames, data, counter, s, d, c, exc, cache_json,
                           counter_pkl, written, passNo, fetched, last, clean, attempts>>

\* line 100: get_to_cases_root() calls itself, with no count of the calls.
\* Only the interpreter's stack ends the chain: RecursionError, which nothing
\* catches.
Retry ==
    /\ pc = "auth_retry"
    /\ IF attempts < RecursionLimit
         THEN /\ attempts' = attempts + 1
              /\ pc' = "auth"
              /\ UNCHANGED <<mode, frames, data, counter, s, d, c, exc, fetched, last,
                             clean,
                             verified>>
         ELSE ProcessEnds("failed")
    /\ UNCHANGED <<cache_json, counter_pkl, written, passNo>>

\* A call of get_to_cases_root returns: to line 100 of its caller, which
\* returns in turn, or to line 268 of __main__, which calls
\* scrape_summary(args.output_file) at line 270.
AuthReturn ==
    /\ pc = "auth_return"
    /\ attempts' = attempts - 1
    /\ pc' = IF attempts = 1 THEN "entry" ELSE "auth_return"
    /\ UNCHANGED <<mode, frames, data, counter, s, d, c, exc, cache_json, counter_pkl,
                   written, passNo, fetched, last, clean, verified>>

\* a call that starts over whatever the disk holds
CacheMissing_always(file) == TRUE

\* `if not os.path.exists('./cache.json'):` of line 128
CacheMissing(file) == ~file.exists

\* scrape_summary, lines 123-128: fresh locals, then os.path.exists('./cache.json').
Enter ==
    /\ pc = "entry"
    /\ passNo < MaxPasses
    /\ passNo' = passNo + 1
    /\ frames' = Append(frames, FALSE)
    /\ counter' = 0
    /\ data' = <<>>
    /\ fetched' = {}
    /\ last' = NoFetch
    /\ clean' = TRUE
    /\ IF CacheMissing(cache_json)
         THEN mode' = "fresh" /\ pc' = "f_root"
         ELSE mode' = "resume" /\ pc' = "r_load"
    /\ UNCHANGED <<s, d, c, exc, cache_json, counter_pkl, written, attempts, verified>>

(***************************************************************************)
(* The fresh pass, lines 130-147.                                          *)
(***************************************************************************)
\* line 130, outside the try block: what it raises ends the process.
FreshRoot ==
    /\ pc = "f_root"
    /\ \E resp \in Responses(base_url) :
         IF FetchRaises(resp) # "none"
           THEN ProcessEnds("failed") /\ UNCHANGED <<cache_json, counter_pkl, written, passNo>>
           ELSE /\ Fetch(<<>>, base_url, resp)
                /\ data' = AsStates(read_table_data_and_links(base_url, resp))
                /\ pc' = "f_state"
                /\ s' = 1
                /\ UNCHANGED <<mode, frames, counter, d, c, exc, cache_json, counter_pkl,
                               written, attempts, verified, passNo>>

\* one turn of `for state in data`, lines 132-134; line 147 when the loop is over
FreshState ==
    /\ pc = "f_state"
    /\ UNCHANGED <<mode, frames, counter, cache_json, counter_pkl, written, attempts,
                   verified, passNo>>
    /\ IF s > Len(data)
         THEN /\ pc' = "export"
              /\ s' = 0
              /\ UNCHANGED <<data, d, c, exc, fetched, last, clean>>
         ELSE IF data[s].url # <<>>
           THEN \E resp \in Responses(ChildUrl(data[s].url)) :
                  /\ Fetch(<<s>>, ChildUrl(data[s].url), resp)
                  /\ IF FetchRaises(resp) # "none"
                       THEN Raise(FetchRaises(resp)) /\ UNCHANGED data
                       ELSE /\ data' = [data EXCEPT ![s].districts =
                                  AsDistricts(read_table_data_and_links(ChildUrl(data[s].url), resp))]
                            /\ pc' = "f_district"
                            /\ d' = 1
                            /\ UNCHANGED <<s, c, exc>>
           ELSE /\ data' = [data EXCEPT ![s].done = TRUE]
                /\ s' = s + 1
                /\ UNCHANGED <<pc, d, c, exc, fetched, last, clean>>

\* one turn of `for district in state['districts']`, lines 135-137; line 146
\* when the loop is over
FreshDistrict ==
    /\ pc = "f_district"
    /\ UNCHANGED <<mode, frames, counter, cache_json, counter_pkl, written, attempts,
                   verified, passNo>>
    /\ LET districts == data[s].districts IN
       IF d > Len(districts)
         THEN /\ data' = [data EXCEPT ![s].done = TRUE]
              /\ pc' = "f_state"
              /\ s' = s + 1
              /\ d' = 0
              /\ UNCHANGED <<c, exc, fetched, last, clean>>
         ELSE IF districts[d].url # <<>>
           THEN \E resp \in Responses(ChildUrl(districts[d].url)) :
                  /\ Fetch(<<s, d>>, ChildUrl(districts[d].url), resp)
                  /\ IF FetchRaises(resp) # "none"
                       THEN Raise(FetchRaises(resp)) /\ UNCHANGED data
                       ELSE /\ data' = [data EXCEPT ![s].districts[d].courts =
                                  AsCourts(read_table_data_and_links(ChildUrl(districts[d].url), resp))]
                            /\ pc' = "f_court"
                            /\ c' = 1
                            /\ UNCHANGED <<s, d, exc>>
           ELSE /\ data' = [data EXCEPT ![s].districts[d].done = TRUE]
                /\ d' = d + 1
                /\ UNCHANGED <<pc, s, c, exc, fetched, last, clean>>

\* one turn of `for court in district['courts']`, lines 138-143 (line 144
\* too for a court without a url); line 145 when the loop is over
FreshCourt ==
    /\ pc = "f_court"
    /\ UNCHANGED <<mode, frames, cache_json, counter_pkl, written, attempts, verified,
                   passNo>>
    /\ LET courts == data[s].districts[d].courts IN
       IF c > Len(courts)
         THEN /\ data' = [data EXCEPT ![s].districts[d].done = TRUE]
              /\ pc' = "f_district"
              /\ d' = d + 1
              /\ c' = 0
              /\ UNCHANGED <<s, counter, exc, fetched, last, clean>>
         ELSE IF courts[c].url # <<>>
           THEN \E resp \in Responses(JudgesUrl(courts[c].url)) :
                  /\ Fetch(<<s, d, c>>, JudgesUrl(courts[c].url), resp)
                  /\ IF FetchRaises(resp) # "none"
                       THEN Raise(FetchRaises(resp)) /\ UNCHANGED <<data, counter>>
                       ELSE LET judges == AsJudges(read_table_data_and_links(
                                                     JudgesUrl(courts[c].url), resp)) IN
                            /\ data' = [data EXCEPT ![s].districts[d].courts[c].judges = judges]
                            /\ counter' = counter + Len(judges)
                            /\ pc' = "f_mark"
                            /\ UNCHANGED <<s, d, c, exc>>
           ELSE /\ data' = [data EXCEPT ![s].districts[d].courts[c].done = TRUE]
                /\ c' = c + 1
                /\ UNCHANGED <<pc, s, d, counter, exc, fetched, last, clean>>

\* line 144, after the judges of the court were fetched
FreshMark ==
    /\ pc = "f_mark"
    /\ data' = [data EXCEPT ![s].districts[d].courts[c].done = TRUE]
    /\ pc' = "f_court"
    /\ c' = c + 1
    /\ UNCHANGED <<mode, frames, counter, s, d, exc, cache_json, counter_pkl, written,
                   attempts, verified,
                   passNo, fetched, last, clean>>

(***************************************************************************)
(* The resume pass, lines 175-221.                                         *)
(***************************************************************************)
\* lines 175-178, outside the try block: a missing counter.pkl ends the
\* process with FileNotFoundError.
Load ==
    /\ pc = "r_load"
    /\ IF ~counter_pkl.exists
         THEN ProcessEnds("failed") /\ UNCHANGED <<cache_json, counter_pkl, written, passNo>>
         ELSE /\ counter' = counter_pkl.content
              /\ data' = cache_json.content
              /\ pc' = "r_state"
              /\ s' = 1
              /\ UNCHANGED <<mode, frames, d, c, exc, cache_json, counter_pkl, written,
                             attempts, verified,
                             passNo, fetched, last, clean>>

\* the key 'districts' read in place of 'district'
GetDistrict_districts(state) == state.districts

\* state.get('district', []) of lines 183, 185 and 219: the rows of the
\* national listing have a column 'state' (line 118) and none named
\* 'district', the error row has neither, and the crawl adds 'districts'.
GetDistrict(state) == <<>>

\* x.get(key, [{}])[0].get('error_flag', False)
FirstFlag(rows) == IF Len(rows) = 0 THEN FALSE ELSE rows[1].error_flag

\* line 183 without its `not state.get('done', False)`
StateIncomplete_anyway(state) == TRUE

\* the condition of line 183
StateIncomplete(state) ==
    (Len(GetDistrict(state)) > 0 /\ FirstFlag(state.districts)) \/ ~state.done

\* the condition of lines 193-195
DistrictIncomplete(district) == FirstIsError(district.courts) \/ ~district.done

\* the condition of lines 205-206
CourtIncomplete(court) == FirstIsError(court.judges) \/ ~court.done

\* lines 189-190 and 201-202
Merge(temp, recorded) == IF Len(temp) > Len(recorded) THEN temp ELSE recorded

\* lines 211: the judges of a court are assigned, not merged
MergeJudges(temp, recorded) == temp

\* lines 219-220
StateDone(state) ==
    IF Len(GetDistrict(state)) > 0 /\ ~FirstFlag(state.districts) THEN TRUE ELSE state.done

\* lines 217-218
DistrictDone(district) == IF FirstIsData(district.courts) THEN TRUE ELSE district.done

\* lines 215-216
CourtDone(court) == IF FirstIsData(court.judges) THEN TRUE ELSE court.done

\* one turn of `for state in data`, lines 182-190; line 221 when the loop is over
ResumeState ==
    /\ pc = "r_state"
    /\ UNCHANGED <<mode, frames, counter, cache_json, counter_pkl, written, attempts,
                   verified, passNo>>
    /\ IF s > Len(data)
         THEN /\ pc' = "export"
              /\ s' = 0
              /\ UNCHANGED <<data, d, c, exc, fetched, last, clean>>
         ELSE IF StateIncomplete(data[s]) /\ data[s].url # <<>>
           THEN \E resp \in Responses(ChildUrl(data[s].url)) :
                  /\ Fetch(<<s>>, ChildUrl(data[s].url), resp)
                  /\ IF FetchRaises(resp) # "none"
                       THEN Raise(FetchRaises(resp)) /\ UNCHANGED data
                       ELSE /\ data' = [data EXCEPT ![s].districts = Merge(
                                  AsDistricts(read_table_data_and_links(ChildUrl(data[s].url), resp)), @)]
                            /\ pc' = "r_district"
                            /\ d' = 1
                            /\ UNCHANGED <<s, c, exc>>
           ELSE /\ data' = [data EXCEPT ![s].done =
                              IF StateIncomplete(data[s]) THEN StateDone(data[s]) ELSE @]
                /\ s' = s + 1
                /\ UNCHANGED <<pc, d, c, exc, fetched, last, clean>>

\* one turn of `for district in state.get('districts', [])`, lines 192-202;
\* lines 219-220 when the loop is over
ResumeDistrict ==
    /\ pc = "r_district"
    /\ UNCHANGED <<mode, frames, counter, cache_json, counter_pkl, written, attempts,
                   verified, passNo>>
    /\ LET districts == data[s].districts IN
       IF d > Len(districts)
         THEN /\ data' = [data EXCEPT ![s].done = StateDone(data[s])]
              /\ pc' = "r_state"
              /\ s' = s + 1
              /\ d' = 0
              /\ UNCHANGED <<c, exc, fetched, last, clean>>
         ELSE IF DistrictIncomplete(districts[d]) /\ districts[d].url # <<>>
           THEN \E resp \in Responses(ChildUrl(districts[d].url)) :
                  /\ Fetch(<<s, d>>, ChildUrl(districts[d].url), resp)
                  /\ IF FetchRaises(resp) # "none"
                       THEN Raise(FetchRaises(resp)) /\ UNCHANGED data
                       ELSE /\ data' = [data EXCEPT ![s].districts[d].courts = Merge(
                                  AsCourts(read_table_data_and_links(ChildUrl(districts[d].url), resp)), @)]
                            /\ pc' = "r_court"
                            /\ c' = 1
                            /\ UNCHANGED <<s, d, exc>>
           ELSE /\ data' = [data EXCEPT ![s].districts[d].done =
                              IF DistrictIncomplete(districts[d]) THEN DistrictDone(districts[d]) ELSE @]
                /\ d' = d + 1
                /\ UNCHANGED <<pc, s, c, exc, fetched, last, clean>>

\* one turn of `for court in district.get('courts', [])`, lines 204-214
\* (lines 215-216 too for a court that is not fetched); lines 217-218 when
\* the loop is over
ResumeCourt ==
    /\ pc = "r_court"
    /\ UNCHANGED <<mode, frames, cache_json, counter_pkl, written, attempts, verified,
                   passNo>>
    /\ LET courts == data[s].districts[d].courts IN
       IF c > Len(courts)
         THEN /\ data' = [data EXCEPT ![s].districts[d].done = DistrictDone(data[s].districts[d])]
              /\ pc' = "r_district"
              /\ d' = d + 1
              /\ c' = 0
              /\ UNCHANGED <<s, counter, exc, fetched, last, clean>>
         ELSE IF CourtIncomplete(courts[c]) /\ courts[c].url # <<>>
           THEN \E resp \in Responses(JudgesUrl(courts[c].url)) :
                  /\ Fetch(<<s, d, c>>, JudgesUrl(courts[c].url), resp)
                  /\ IF FetchRaises(resp) # "none"
                       THEN Raise(FetchRaises(resp)) /\ UNCHANGED <<data, counter>>
                       ELSE LET judges == MergeJudges(AsJudges(read_table_data_and_links(
                                              JudgesUrl(courts[c].url), resp)), courts[c].judges)
                            IN
                            /\ data' = [data EXCEPT ![s].districts[d].courts[c].judges = judges]
                            /\ counter' = counter + Len(judges)
                            /\ pc' = "r_mark"
                            /\ UNCHANGED <<s, d, c, exc>>
           ELSE /\ data' = [data EXCEPT ![s].districts[d].courts[c].done = CourtDone(courts[c])]
                /\ c' = c + 1
                /\ UNCHANGED <<pc, s, d, counter, exc, fetched, last, clean>>

\* lines 215-216, after the judges of the court were fetched
ResumeMark ==
    /\ pc = "r_mark"
    /\ data' = [data EXCEPT ![s].districts[d].courts[c].done =
                  CourtDone(data[s].districts[d].courts[c])]
    /\ pc' = "r_court"
    /\ c' = c + 1
    /\ UNCHANGED <<mode, frames, counter, s, d, exc, cache_json, counter_pkl, written,
                   attempts, verified,
                   passNo, fetched, last, clean>>

(***************************************************************************)
(* write_judge_data_to_csv(output_file, data), lines 147 and 221.          *)
(***************************************************************************)
\* os._exit(0) ends the process at once: no finally block runs after it.
Export ==
    /\ pc = "export"
    /\ data' = CsvTree(data)
    /\ IF CsvRaises(data)
         THEN /\ Raise("Exception")
              /\ written' = CsvRowsBeforeRaise(data)
         ELSE /\ written' \in CsvRowsOnExit(data)
              /\ pc' = "exited"
              /\ UNCHANGED <<s, d, c, exc>>
    /\ UNCHANGED <<mode, frames, counter, cache_json, counter_pkl, passNo, fetched, last,
                   clean,
                   attempts, verified>>

(***************************************************************************)
(* except and finally, lines 150-171 and 224-246.                          *)
(***************************************************************************)
\* The operator's Ctrl-C inside the try block.
KeyboardInterrupt ==
    /\ pc \in {"f_state", "f_district", "f_court", "f_mark",
              "r_state", "r_district", "r_court", "r_mark", "export"}
    /\ Raise("KeyboardInterrupt")
    /\ UNCHANGED <<mode, frames, data, counter, cache_json, counter_pkl, written,
                   attempts, verified, passNo,
                   fetched, last, clean>>

\* shutdown_by_keyboard_interrupt after the except clauses
FlagAfter(flag, kind) == flag \/ kind = "KeyboardInterrupt"

\* The except clauses.  An exception no clause of the fresh pass names
\* (lines 150-162 have no `except Exception`) stays raised behind the finally
\* block, which runs all the same.
Handle ==
    /\ pc = "except"
    /\ frames' = [frames EXCEPT ![Len(frames)] = FlagAfter(@, exc)]
    /\ exc' = "none"
    /\ pc' = "dump_cache"
    /\ UNCHANGED <<mode, data, counter, s, d, c, cache_json, counter_pkl, written,
                   attempts, verified, passNo,
                   fetched, last, clean>>

\* json.dump(data, cache_file, sort_keys=True, indent=4) followed by json.load:
\* lists, dicts with string keys, strings and booleans come back as written.
JsonRoundTrip(t) == t

\* lines 166-167 and 241-242
DumpCache ==
    /\ pc = "dump_cache"
    /\ cache_json' = [exists |-> TRUE, content |-> JsonRoundTrip(data), pass |-> passNo]
    /\ pc' = "dump_counter"
    /\ UNCHANGED <<mode, frames, data, counter, s, d, c, exc, counter_pkl, written,
                   attempts, verified, passNo,
                   fetched, last, clean>>

\* lines 168-169 and 243-244
DumpCounter ==
    /\ pc = "dump_counter"
    /\ counter_pkl' = [exists |-> TRUE, content |-> counter, pass |-> passNo]
    /\ pc' = "restart"
    /\ UNCHANGED <<mode, frames, data, counter, s, d, c, exc, cache_json, written,
                   attempts, verified, passNo,
                   fetched, last, clean>>

\* the finally block restarting whatever the flag says
Restarts_always(flag) == TRUE

\* `if not shutdown_by_keyboard_interrupt:` of lines 170 and 245
Restarts(flag) == ~flag

\* lines 170-171 and 245-246: the call of scrape_summary, or the end of the
\* finally block
Restart ==
    /\ pc = "restart"
    /\ pc' = IF Restarts(frames[Len(frames)]) THEN "entry" ELSE "return"
    /\ UNCHANGED <<mode, frames, data, counter, s, d, c, exc, cache_json, counter_pkl,
                   written, attempts, verified, passNo, fetched, last, clean>>

\* The running call ends; its caller stands at the end of its own finally
\* block (line 171 or 246) and ends too, the outermost one ends the process.
Return ==
    /\ pc = "return"
    /\ IF Len(frames) = 1
         THEN ProcessEnds("off")
         ELSE /\ frames' = SubSeq(frames, 1, Len(frames) - 1)
              /\ UNCHANGED <<pc, mode, data, counter, s, d, c, exc, fetched, last, clean,
                             attempts, verified>>
    /\ UNCHANGED <<cache_json, counter_pkl, written, passNo>>

\* The process is killed (or fails outside every try block).
Crash ==
    /\ pc \notin {"off", "failed", "exited"}
    /\ ProcessEnds("off")
    /\ UNCHANGED <<cache_json, counter_pkl, written, passNo>>

Next ==
    \/ Launch
    \/ Challenge
    \/ Retry
    \/ AuthReturn
    \/ Enter
    \/ FreshRoot
    \/ FreshState
    \/ FreshDistrict
    \/ FreshCourt
    \/ FreshMark
    \/ Load
    \/ ResumeState
    \/ ResumeDistrict
    \/ ResumeCourt
    \/ ResumeMark
    \/ Export
    \/ KeyboardInterrupt
    \/ Handle
    \/ DumpCache
    \/ DumpCounter
    \/ Restart
    \/ Return
    \/ Crash

Spec == Init /\ [][Next]_vars

(***************************************************************************)
(* Properties                                                              *)
(***************************************************************************)
HasError(rows) == \E i \in 1..Len(rows) : rows[i].error_flag

\* no error row among the children, every child with a url done
Complete(rows) ==
    /\ ~HasError(rows)
    /\ \A i \in 1..Len(rows) : rows[i].url # <<>> => rows[i].done

DoneImpliesComplete(t) ==
    \A i \in 1..Len(t) :
      /\ t[i].done => Complete(t[i].districts)
      /\ \A j \in 1..Len(t[i].districts) :
           LET di == t[i].districts[j] IN
           /\ di.done => Complete(di.courts)
           /\ \A k \in 1..Len(di.courts) :
                di.courts[k].done => Complete(di.courts[k].judges)

\* every state, district and court done
AllDone(t) ==
    \A i \in 1..Len(t) :
      /\ t[i].done
      /\ \A j \in 1..Len(t[i].districts) :
           /\ t[i].districts[j].done
           /\ \A k \in 1..Len(t[i].districts[j].courts) : t[i].districts[j].courts[k].done

\* no error row in any list of the tree
NoErrorRow(t) ==
    /\ ~HasError(t)
    /\ \A i \in 1..Len(t) :
         /\ ~HasError(t[i].districts)
         /\ \A j \in 1..Len(t[i].districts) :
              /\ ~HasError(t[i].districts[j].courts)
              /\ \A k \in 1..Len(t[i].districts[j].courts) :
                   ~HasError(t[i].districts[j].courts[k].judges)

\* the paths of the states, districts and courts of a tree
Nodes(t) ==
    {<<i>> : i \in 1..Len(t)}
      \cup UNION {{<<i, j>> : j \in 1..Len(t[i].districts)} : i \in 1..Len(t)}
      \cup UNION {UNION {{<<i, j, k>> : k \in 1..Len(t[i].districts[j].courts)} :
                           j \in 1..Len(t[i].districts)} : i \in 1..Len(t)}

\* the child list of the node at path n
Children(t, n) ==
    CASE Len(n) = 1 -> t[n[1]].districts
      [] Len(n) = 2 -> t[n[1]].districts[n[2]].courts
      [] OTHER      -> t[n[1]].districts[n[2]].courts[n[3]].judges

FetchedNodes == {f.node : f \in fetched}

\* the running call is a resume pass whose files are still those it loaded
ResumeUnsaved ==
    /\ mode = "resume"
    /\ pc \in {"r_state", "r_district", "r_court", "r_mark", "export", "except", "dump_cache"}

\* C1: a fetch answered with status 200 and a body holding a transient-error
\* marker returns exactly the one error row {url, error_flag=true,
\* done=false}, as a non-200 status and a timeout do.
C1_MarkerYieldsErrorRow ==
    last.resp = RespMarker => last.rows = ErrorRows(last.url)

\* C2: in every tree scrape_summary persists or hands to the export, a state,
\* district or court that is done has no error row among its children and
\* every child with a url done.
C2_DoneImpliesComplete ==
    /\ cache_json.exists => DoneImpliesComplete(cache_json.content)
    /\ pc = "export" => DoneImpliesComplete(data)

\* C3: write_judge_data_to_csv is called only with a tree in which every node
\* is done and no list holds an error row.
C3_ExportOnlyWhenComplete ==
    pc = "export" => AllDone(data) /\ NoErrorRow(data)

\* C4: in a resume pass, a re-fetch that returns fewer rows than the node's
\* recorded child list leaves the recorded list as it was, at every level.
C4_NoTruncation ==
    [][\A n \in Nodes(data) :
         ( /\ mode = "resume"
           /\ [node |-> n, url |-> last'.url] \in fetched' \ fetched
           /\ FetchRaises(last'.resp) = "none"
           /\ Len(last'.rows) < Len(Children(data, n)) )
         => Children(data', n) = Children(data, n)]_vars

\* C5: every node whose recorded child list is an error row in the persisted
\* tree has been re-fetched when the next resume pass reaches its end.
C5_ErrorRowsRefetched ==
    (mode = "resume" /\ pc = "export") =>
        \A n \in Nodes(cache_json.content) :
            FirstIsError(Children(cache_json.content, n)) => n \in FetchedNodes

\* C6: however a crawl pass ends (export done, an exception out of the pass,
\* a cancel, a restart), both files have been written by that pass before
\* the process ends or the next pass starts.
C6_PersistOnEveryExit ==
    (pc \in {"exited", "failed", "return"} \/ (pc = "entry" /\ frames # <<>>)) =>
        /\ cache_json.exists /\ cache_json.pass = passNo
        /\ counter_pkl.exists /\ counter_pkl.pass = passNo

\* C7: a load never finds a tree without a counter, nor a tree and a counter
\* written by different passes.
C7_AtomicSnapshot ==
    pc = "r_load" => counter_pkl.exists /\ counter_pkl.pass = cache_json.pass

\* a tree without the keys write_judge_data_to_csv adds to its judges
WithoutCsvKeys(state) ==
    [state EXCEPT !.districts =
      [j \in 1..Len(state.districts) |-> [state.districts[j] EXCEPT !.courts =
        [k \in 1..Len(state.districts[j].courts) |-> [state.districts[j].courts[k] EXCEPT !.judges =
          [m \in 1..Len(state.districts[j].courts[k].judges) |->
            [state.districts[j].courts[k].judges[m] EXCEPT
               !.establishment = 0, !.district = 0, !.state = 0]]]]]]]

\* a resume pass fetches nothing at or under a state that is done in the
\* persisted tree
NoFetchUnderDone ==
    ResumeUnsaved =>
        /\ Len(data) = Len(cache_json.content)
        /\ \A n \in FetchedNodes : Len(n) > 0 /\ ~cache_json.content[n[1]].done

Cancelled == pc = "return" \/ (frames # <<>> /\ frames[Len(frames)])

\* C10: once a pass has caught a KeyboardInterrupt, at any depth of the
\* restart chain, no pass starts and no fetch is made, and the pass returns
\* only with its tree and counter in the two files.
C10_CancelStops ==
    [][/\ (Cancelled /\ pc' \notin {"off", "failed"}) =>
            /\ passNo' = passNo
            /\ fetched' = fetched
            /\ pc' \in {"dump_cache", "dump_counter", "restart", "return"}
       /\ (pc' = "return" /\ pc # "return") =>
            /\ cache_json'.exists /\ cache_json'.content = data'
            /\ counter_pkl'.exists /\ counter_pkl'.content = counter'
            /\ cache_json'.pass = passNo' /\ counter_pkl'.pass = passNo']_vars

\* a cancelled pass, nested in the finally block of another, has returned
C10_Witness ==
    /\ pc = "return"
    /\ Len(frames) = 1
    /\ passNo = 2
    /\ mode = "resume"
    /\ cache_json.pass = 2

\* C11: the call the finally block makes after a failure that was not a
\* cancel takes the resume branch, never the fresh one, and the tree and the
\* counter it loads are the ones the failed pass has just written.
C11_RestartResumes ==
    [][/\ (pc = "entry" /\ frames # <<>> /\ pc' # "off") =>
            /\ mode' = "resume" /\ pc' = "r_load"
            /\ cache_json.exists /\ cache_json.pass = passNo
       /\ (pc = "r_load" /\ Len(frames) > 1 /\ pc' # "off") =>
            /\ pc' = "r_state"
            /\ data' = cache_json.content /\ cache_json.pass = passNo - 1
            /\ counter' = counter_pkl.content /\ counter_pkl.pass = passNo - 1]_vars

\* a restarted pass stands at its first state with the captured tree loaded
C11_Witness ==
    /\ pc = "r_state" /\ s = 1 /\ fetched = {}
    /\ Len(frames) = 2 /\ ~frames[1]
    /\ mode = "resume"
    /\ data = cache_json.content /\ cache_json.pass = passNo - 1
    /\ Len(JudgePaths(data)) > 0

\* C12: get_to_cases_root gives up by itself, with an authentication failure,
\* after a bounded number of rejected answers: it never stands at its retry
\* with every call the interpreter's stack has room for already in use.
C12_BoundedRetries == ~(pc = "auth_retry" /\ attempts = RecursionLimit /\ ~verified)

\* one record per judge row of t, in preorder, each with the identifiers of
\* the court, the district and the state it stands under
JudgeRecords(t) ==
    LET qs == JudgePaths(t)
    IN [k \in 1..Len(qs) |->
         [judge |-> t[qs[k][1]].districts[qs[k][2]].courts[qs[k][3]].judges[qs[k][4]].judge,
          establishment |-> t[qs[k][1]].districts[qs[k][2]].courts[qs[k][3]].establishment,
          district |-> t[qs[k][1]].districts[qs[k][2]].district,
          state |-> t[qs[k][1]].state]]

\* the four columns of the rows in the output file
FileRecords ==
    [k \in 1..Len(written) |->
       [judge |-> written[k].judge, establishment |-> written[k].establishment,
        district |-> written[k].district, state |-> written[k].state]]

\* C13: whatever tree write_judge_data_to_csv is given, when it is over the
\* output file holds exactly one record per judge row of the tree, in
\* preorder, each with the identifiers of its own court, district and state.
C13_FlattenCorrect ==
    [][(pc = "export" /\ pc' # "off" /\ exc' # "KeyboardInterrupt") =>
          FileRecords' = JudgeRecords(data)]_vars

\* the row at path n
Row(t, n) ==
    CASE Len(n) = 1 -> t[n[1]]
      [] Len(n) = 2 -> t[n[1]].districts[n[2]]
      [] OTHER      -> t[n[1]].districts[n[2]].courts[n[3]]

\* the list the row at path n stands in was fetched by the running call
ParentFetched(n) == SubSeq(n, 1, Len(n) - 1) \in FetchedNodes

\* C14: an error row that a fetch of the running pass, fresh or resume, has
\* returned is not drilled into: no fetch is made for it, it gets no children
\* and it is not marked done.
C14_NoDescentIntoSentinel ==
    \A n \in Nodes(data) :
        (Row(data, n).error_flag /\ ParentFetched(n)) =>
            /\ n \notin FetchedNodes
            /\ Children(data, n) = <<>>
            /\ ~Row(data, n).done

\* C15: while a resume pass crawls, every state, district and court that is
\* done in the tree it loaded is still there and still done, has the child
\* list it had, and no fetch is made for it.
C15_DoneIsTerminal ==
    (mode = "resume" /\ pc \in {"r_state", "r_district", "r_court", "r_mark"}) =>
        \A n \in Nodes(cache_json.content) :
            Row(cache_json.content, n).done =>
                /\ n \notin FetchedNodes
                /\ n \in Nodes(data)
                /\ Row(data, n).done
                /\ Children(data, n) = Children(cache_json.content, n)

\* C16: when the loops of a resume pass are over and nothing was raised,
\* every state, district and court of the listings (a row with a url that is
\* no error row) whose child list has no error row and whose children with a
\* url are all done is itself done.  Stated for the nodes that have children:
\* an empty list is what a page with a transient-error marker leaves.
C16_DoneWhenComplete ==
    (mode = "resume" /\ pc = "export") =>
        \A n \in Nodes(data) :
            (/\ Row(data, n).url # <<>> /\ ~Row(data, n).error_flag
             /\ Children(data, n) # <<>> /\ Complete(Children(data, n))) => Row(data, n).done

\* C17: a pass that started when the failures were over (every fetch it made
\* returned a listing, nothing was raised, nobody cancelled) and that has
\* written the export and stopped has exported a tree with every node done and
\* no error row.
C17_EventualCompletion ==
    (pc = "exited" /\ clean) => (AllDone(data) /\ NoErrorRow(data))

\* the judge records of a tree: the rows of the judge lists that are no error
\* rows
JudgeCount(t) ==
    LET qs == JudgePaths(t)
    IN Cardinality({k \in 1..Len(qs) :
         ~t[qs[k][1]].districts[qs[k][2]].courts[qs[k][3]].judges[qs[k][4]].error_flag})

\* C18: in every snapshot on disk (cache.json and counter.pkl written by the
\* same pass) the counter is the number of judge records of the tree.
C18_CounterMatchesTree ==
    (cache_json.exists /\ counter_pkl.exists /\ cache_json.pass = counter_pkl.pass) =>
        counter_pkl.content = JudgeCount(cache_json.content)

\* a recorded child list that is one error row, or empty
SentinelOrEmpty(rows) == rows = <<>> \/ (Len(rows) = 1 /\ rows[1].error_flag)

\* the child list of node n in the next state is the listing just fetched
ReplacedByFetched(n) ==
    /\ Len(Children(data', n)) = Len(last'.rows)
    /\ \A i \in 1..Len(last'.rows) :
         /\ Children(data', n)[i].url = last'.rows[i].url
         /\ ~Children(data', n)[i].error_flag

\* C19: when a resume pass fetches the children of a state or of a district
\* again, the recorded list being one error row or empty, and the fetch
\* returns a listing, the recorded list becomes that listing, whatever its
\* length.
C19_SentinelReplaced ==
    [][/\ (pc = "r_state" /\ pc' = "r_district" /\ last'.resp = RespOk
           /\ SentinelOrEmpty(data[s].districts)) => ReplacedByFetched(<<s>>)
       /\ (pc = "r_district" /\ pc' = "r_court" /\ last'.resp = RespOk
           /\ SentinelOrEmpty(data[s].districts[d].courts)) => ReplacedByFetched(<<s, d>>)]_vars

\* C20: a call of get_to_cases_root returns, and scrape_summary runs and
\* fetches listings, only with a captcha answer accepted by the site on
\* SESSION; by then every call of get_to_cases_root has returned.
C20_AuthBeforeCrawl ==
    /\ pc \notin {"off", "failed", "auth", "auth_retry"} => verified
    /\ (pc \notin {"off", "failed", "auth", "auth_retry", "auth_return"} \/ fetched # {}) =>
          (verified /\ attempts = 0)

\* the first pass of a process has made its first listing fetch
C20_Witness ==
    /\ mode = "fresh" /\ pc = "f_state"
    /\ Cardinality(fetched) = 1
    /\ verified

====
